---------------------------- MODULE Spec2Model ----------------------------
(***************************************************************************)
(* A model of the hackathon finder bot: the scrapers (scrapers.py), the    *)
(* deadline filter and message formatter (utils.py) and the Telegram       *)
(* front-end (bot.py).                                                     *)
(*                                                                         *)
(* Python strings are sequences of one-character strings; Python values    *)
(* whose type the code tests or relies on are tagged records (PyNone,      *)
(* PyStr, PyInt, PyList, PyDict).  A raised exception is the value Raised. *)
(***************************************************************************)
EXTENDS Integers, Sequences, FiniteSets, TLC

VARIABLES
  fn,         \* the function under test in the unit specifications
  args,       \* its arguments
  ret,        \* its result, NotRun before the call
  pc,         \* bot.py: the statement the process is at
  handler,    \* bot.py: the handler running ("startup", "check", "file", "none")
  idx,        \* scrape_all: index of the next registry entry
  results,    \* the local `results` of the running handler
  data,       \* scrape_all: what each adapter returned this run (or Raised)
  calls,      \* scrape_all: number of invocations of each adapter this run
  msg,        \* the local `msg` of the running handler
  DATA_FILE,  \* the snapshot file data.json
  outbox,     \* Telegram API calls issued by the running handler, in order
  trace,      \* pipeline steps finished by the running handler, in order
  installed,  \* bot.py: whether the import of scrapers and utils succeeded
  lastRun     \* summary of the last pipeline run that ended

vars == <<fn, args, ret, pc, handler, idx, results, data, calls, msg,
          DATA_FILE, outbox, trace, installed, lastRun>>

unitVars == <<fn, args, ret>>
botVars == <<pc, handler, idx, results, data, calls, msg, DATA_FILE, outbox,
             trace, installed, lastRun>>

-----------------------------------------------------------------------------
(* Python values *)

PyNone == [t |-> "none"]
PyStr(s) == [t |-> "str", s |-> s]
PyInt(n) == [t |-> "int", n |-> n]
PyList(l) == [t |-> "list", l |-> l]
PyDict(d) == [t |-> "dict", d |-> d]
PyTuple(l) == [t |-> "tuple", l |-> l]
Raised == [t |-> "raised"]
NotRun == [t |-> "notrun"]

\* bool(v) for the values above
Truthy(v) ==
  CASE v.t = "none" -> FALSE
    [] v.t = "str" -> v.s # <<>>
    [] v.t = "int" -> v.n # 0
    [] v.t = "list" -> v.l # <<>>
    [] v.t = "dict" -> DOMAIN v.d # {}
    [] v.t = "tuple" -> v.l # <<>>
    [] OTHER -> TRUE

\* a or b
PyOr(a, b) == IF Truthy(a) THEN a ELSE b

\* d.get(k) for a dict d (a function from key names to values)
Get(d, k) == IF k \in DOMAIN d THEN d[k] ELSE PyNone

EmptyStr == PyStr(<<>>)

-----------------------------------------------------------------------------
(* Strings *)

Min(S) == CHOOSE x \in S : \A y \in S : x <= y
Max(S) == CHOOSE x \in S : \A y \in S : x >= y

UpperChars == <<"A","B","C","D","E","F","G","H","I","J","K","L","M",
                "N","O","P","Q","R","S","T","U","V","W","X","Y","Z">>
LowerChars == <<"a","b","c","d","e","f","g","h","i","j","k","l","m",
                "n","o","p","q","r","s","t","u","v","w","x","y","z">>

LowerChar(c) ==
  IF \E i \in DOMAIN UpperChars : UpperChars[i] = c
  THEN LowerChars[CHOOSE i \in DOMAIN UpperChars : UpperChars[i] = c]
  ELSE c

UpperChar(c) ==
  IF \E i \in DOMAIN LowerChars : LowerChars[i] = c
  THEN UpperChars[CHOOSE i \in DOMAIN LowerChars : LowerChars[i] = c]
  ELSE c

\* str.lower(), str.upper()
lower(s) == [i \in 1..Len(s) |-> LowerChar(s[i])]
upper(s) == [i \in 1..Len(s) |-> UpperChar(s[i])]

\* the characters str.strip() removes and the regex class \s matches
Whitespace == {" ", "\t", "\n", "\r", "\f"}

\* the first index >= i of s whose character is not in chars (Len(s) + 1 if none)
RECURSIVE SkipForward(_, _, _)
SkipForward(s, chars, i) ==
  IF i <= Len(s) /\ s[i] \in chars THEN SkipForward(s, chars, i + 1) ELSE i

\* the last index <= i of s whose character is not in chars (0 if none)
RECURSIVE SkipBackward(_, _, _)
SkipBackward(s, chars, i) ==
  IF i >= 1 /\ s[i] \in chars THEN SkipBackward(s, chars, i - 1) ELSE i

\* str.strip()
strip(s) ==
  SubSeq(s, SkipForward(s, Whitespace, 1), SkipBackward(s, Whitespace, Len(s)))

\* str.rstrip(chars)
rstrip(s, chars) == SubSeq(s, 1, SkipBackward(s, chars, Len(s)))

\* str.startswith(prefix)
startswith(s, prefix) ==
  Len(s) >= Len(prefix) /\ SubSeq(s, 1, Len(prefix)) = prefix

S_http == <<"h","t","t","p">>
S_slash == <<"/">>
S_colon_slashes == <<":","/","/">>


-----------------------------------------------------------------------------
(* scrapers.py: _http_re and normalize_url *)

\* [^\s'"<>]
UrlChar(c) == c \notin Whitespace \cup {"'", "\"", "<", ">"}

\* the length of https?:// matched case-insensitively at position i, 0 if none
SchemeLenAt(s, i) ==
  IF i + 7 <= Len(s)
     /\ lower(SubSeq(s, i, i + 7)) = <<"h","t","t","p","s",":","/","/">>
  THEN 8
  ELSE IF i + 6 <= Len(s)
          /\ lower(SubSeq(s, i, i + 6)) = <<"h","t","t","p",":","/","/">>
       THEN 7
       ELSE 0

\* the greedy run [^\s'"<>]+ from position j: the index of its last character
RECURSIVE RunEnd(_, _)
RunEnd(s, j) ==
  IF j <= Len(s) /\ UrlChar(s[j]) THEN RunEnd(s, j + 1) ELSE j - 1

\* the end of the match of _http_re starting at i, 0 if there is none
MatchEndAt(s, i) ==
  LET k == SchemeLenAt(s, i)
  IN IF k = 0 THEN 0
     ELSE IF RunEnd(s, i + k) >= i + k THEN RunEnd(s, i + k) ELSE 0

RECURSIVE SearchFrom(_, _)
SearchFrom(s, i) ==
  IF i > Len(s) THEN PyNone
  ELSE IF MatchEndAt(s, i) > 0 THEN PyStr(SubSeq(s, i, MatchEndAt(s, i)))
       ELSE SearchFrom(s, i + 1)

\* _http_re.search(s): the leftmost match (m.group(0)) or None
http_re_search(s) == SearchFrom(s, 1)

\* the smallest index >= from at which c occurs in s, Len(s) + 1 if none
IndexFrom(s, c, from) ==
  LET hits == {i \in from..Len(s) : s[i] = c}
  IN IF hits = {} THEN Len(s) + 1 ELSE Min(hits)

\* str.split(sep) for a one-character separator
RECURSIVE split(_, _)
split(s, sep) ==
  LET i == IndexFrom(s, sep, 1)
  IN IF i > Len(s) THEN <<s>>
     ELSE <<SubSeq(s, 1, i - 1)>> \o split(SubSeq(s, i + 1, Len(s)), sep)

\* sep.join(parts)
RECURSIVE join(_, _)
join(parts, sep) ==
  IF parts = <<>> THEN <<>>
  ELSE IF Len(parts) = 1 THEN parts[1]
       ELSE parts[1] \o sep \o join(Tail(parts), sep)

\* urljoin's removal of dot segments: the loop over `segments`
RECURSIVE ResolveSegments(_, _)
ResolveSegments(segments, resolved) ==
  IF segments = <<>> THEN resolved
  ELSE LET seg == Head(segments)
       IN IF seg = <<".", ".">>
          THEN ResolveSegments(Tail(segments),
                 IF resolved = <<>> THEN resolved
                 ELSE SubSeq(resolved, 1, Len(resolved) - 1))
          ELSE IF seg = <<".">>
               THEN ResolveSegments(Tail(segments), resolved)
               ELSE ResolveSegments(Tail(segments), Append(resolved, seg))

\* urllib.parse.urljoin(base, url) for an http(s) base without query or
\* fragment and a url that starts with "/" and holds no "?", "#", tab or
\* line break (the inputs normalize_url passes here, within the model's inputs)
urljoin(base, url) ==
  LET colon == IndexFrom(base, ":", 1)
      bscheme == SubSeq(base, 1, colon - 1)
      bhost == colon + 3
      bnetloc == SubSeq(base, bhost, IndexFrom(base, "/", bhost) - 1)
      slashes == startswith(url, <<"/", "/">>)
      netloc == IF slashes THEN SubSeq(url, 3, IndexFrom(url, "/", 3) - 1)
                ELSE <<>>
      path == IF slashes THEN SubSeq(url, IndexFrom(url, "/", 3), Len(url))
              ELSE url
      segments == split(path, "/")
      resolved == ResolveSegments(segments, <<>>)
      closed == IF segments[Len(segments)] \in {<<".">>, <<".", ".">>}
                THEN Append(resolved, <<>>) ELSE resolved
      joined == IF join(closed, S_slash) = <<>> THEN S_slash
                ELSE join(closed, S_slash)
  IN IF netloc # <<>> THEN bscheme \o S_colon_slashes \o netloc \o path
     ELSE IF path = <<>> THEN base
          ELSE bscheme \o S_colon_slashes \o bnetloc \o joined

\* url.rstrip('.,;:)"\'')
TrailingPunctuation == {".", ",", ";", ":", ")", "\"", "'"}

\* normalize_url with the relative-path rule tried before the embedded-URL
\* search
normalize_url_relative_first(raw, base) ==
  IF ~Truthy(raw) THEN PyStr(<<>>)
  ELSE IF raw.t # "str" THEN Raised
  ELSE
    LET stripped == strip(raw.s)
        m == http_re_search(stripped)
    IN IF Truthy(base) /\ ~startswith(stripped, S_http)
          /\ startswith(stripped, S_slash)
       THEN PyStr(urljoin(base.s, stripped))
       ELSE IF m # PyNone THEN PyStr(rstrip(m.s, TrailingPunctuation))
            ELSE IF startswith(stripped, S_http) THEN PyStr(stripped)
                 ELSE PyStr(<<>>)

\* normalize_url(raw, base): raw and base are Python values; the result is a
\* PyStr, or Raised when raw is a truthy value without .strip()
normalize_url(raw, base) ==
  IF ~Truthy(raw) THEN PyStr(<<>>)
  ELSE IF raw.t # "str" THEN Raised
  ELSE
    LET stripped == strip(raw.s)
        m == http_re_search(stripped)
    IN IF m # PyNone THEN PyStr(rstrip(m.s, TrailingPunctuation))
       ELSE IF Truthy(base) /\ ~startswith(stripped, S_http)
               /\ startswith(stripped, S_slash)
            THEN PyStr(urljoin(base.s, stripped))
            ELSE IF startswith(stripped, S_http) THEN PyStr(stripped)
                 ELSE PyStr(<<>>)

-----------------------------------------------------------------------------
(* Inputs of the unit specification of normalize_url: raw is a leading pad, *)
(* a lead text, a core, a trailing text and a trailing pad.                 *)

LeadPads ==
  { <<>>,
    <<" ">>,
    <<"\n">> }

TrailPads ==
  { <<>>,
    <<" ">> }

LeadTexts ==
  { <<>>,
    <<"C","l","i","c","k"," ","h","e","r","e",":"," ">>,
    <<"x">> }

Cores ==
  { <<>>,
    <<"h","t","t","p">>,
    <<"h","t","t","p","x">>,
    <<"h","t","t","p",":","/","/">>,
    <<"H","T","T","P",":","/","/">>,
    <<"h","t","t","p","s",":","/","/","x",".","o","r","g","/","a","?","b","=","1">>,
    <<"H","T","T","P","S",":","/","/","X",".","o","r","g","/","a">>,
    <<"h","t","t","p",":","/","/","b","/","2">>,
    <<"/","n","e","w","s","/","4","2">>,
    <<"/","/","h","/","a">>,
    <<"/">>,
    <<"/","a","/",".",".","/","b">>,
    <<"n","o","t"," ","a"," ","u","r","l">>,
    <<"h","t","t","p","s","/","/","x">>,
    <<"h","t","t","p",":","/","/"," ","y">> }

TrailTexts ==
  { <<>>,
    <<".">>,
    <<")",".">>,
    <<"\"">>,
    <<" ","z">>,
    <<" ","h","t","t","p",":","/","/","c">>,
    <<"'",">">>,
    <<":",";",",">> }

RawStrings ==
  { a \o b \o c \o d \o e :
      a \in LeadPads, b \in LeadTexts, c \in Cores, d \in TrailTexts,
      e \in TrailPads }

B_x_org == <<"h","t","t","p","s",":","/","/","x",".","o","r","g">>
B_nic == <<"h","t","t","p","s",":","/","/","w","w","w",".","n","i","c",".","i","n","/","n","e","w","s","/">>

Bases == {PyNone, PyStr(B_x_org), PyStr(B_nic)}

-----------------------------------------------------------------------------
(* The state of the bot before main() runs; the unit specifications leave   *)
(* it untouched.                                                            *)

NoFile == [exists |-> FALSE, intact |-> TRUE, content |-> <<>>]
NoMsg == <<>>
NoRun == [handler |-> "none", status |-> "none", failed |-> "none",
          filtered |-> <<>>, msgLen |-> 0, overwrote |-> FALSE]

BotIdle ==
  /\ pc = "main"
  /\ handler = "none"
  /\ idx = 0
  /\ results = <<>>
  /\ data = <<>>
  /\ calls = <<>>
  /\ msg = NoMsg
  /\ DATA_FILE = NoFile
  /\ outbox = <<>>
  /\ trace = <<>>
  /\ installed = TRUE
  /\ lastRun = NoRun

-----------------------------------------------------------------------------
(* Unit specification of normalize_url *)

InitUrl ==
  /\ fn = "normalize_url"
  /\ args \in [raw : {PyStr(s) : s \in RawStrings} \cup {PyNone}, base : Bases]
  /\ ret = NotRun
  /\ BotIdle

CallNormalizeUrl ==
  /\ fn = "normalize_url"
  /\ ret = NotRun
  /\ ret' = normalize_url(args.raw, args.base)
  /\ UNCHANGED <<fn, args, botVars>>

NextUrl == CallNormalizeUrl

SpecUrl == InitUrl /\ [][NextUrl]_vars

(* The priority rule, stated on its own terms *)

\* s[i..j] is an http:// or https:// prefix (any letter case) followed by one
\* or more characters that are not whitespace, quotes or angle brackets
EmbeddedAt(s, i, j) ==
  \E k \in {7, 8} :
    /\ i + k <= j
    /\ j <= Len(s)
    /\ lower(SubSeq(s, i, i + k - 1)) =
         (IF k = 7 THEN <<"h","t","t","p",":","/","/">>
          ELSE <<"h","t","t","p","s",":","/","/">>)
    /\ \A q \in (i + k)..j : UrlChar(s[q])

EmbeddedStarts(s) == {i \in 1..Len(s) : \E j \in i..Len(s) : EmbeddedAt(s, i, j)}

FirstEmbedded(s) ==
  LET i == Min(EmbeddedStarts(s))
      j == Max({e \in i..Len(s) : EmbeddedAt(s, i, e)})
  IN SubSeq(s, i, j)

\* out is u without its trailing punctuation
TrailingStripped(u, out) ==
  \E n \in 0..Len(u) :
    /\ out = SubSeq(u, 1, n)
    /\ n = 0 \/ u[n] \notin TrailingPunctuation
    /\ \A q \in (n + 1)..Len(u) : u[q] \in TrailingPunctuation

PriorityRule(r, base, out) ==
  IF EmbeddedStarts(r) # {} THEN TrailingStripped(FirstEmbedded(r), out)
  ELSE IF r # <<>> /\ r[1] = "/" /\ base # PyNone
       THEN out = urljoin(base.s, r)
       ELSE IF Len(r) >= 4 /\ SubSeq(r, 1, 4) = S_http THEN out = r
            ELSE out = <<>>

RawText(raw) == IF raw = PyNone THEN <<>> ELSE raw.s

UrlReturned == fn = "normalize_url" /\ ret # NotRun

\* C3 as stated: the priority rule applies to raw itself.
C3_PriorityOnRaw ==
  UrlReturned => /\ ret.t = "str"
                 /\ PriorityRule(RawText(args.raw), args.base, ret.s)

\* C3 as amended: normalize_url first trims surrounding whitespace from raw and
\* then follows the priority order on the trimmed text: (1) the first embedded
\* http/https URL with trailing punctuation stripped, regardless of base;
\* (2) else the trimmed text resolved against base if it starts with "/" and
\* base is supplied; (3) else the trimmed text if it starts with "http";
\* (4) else the empty string.
C3_PriorityOnTrimmedRaw ==
  UrlReturned => /\ ret.t = "str"
                 /\ PriorityRule(strip(RawText(args.raw)), args.base, ret.s)

\* An embedded URL inside padded text, with a base supplied, returned without
\* its trailing punctuation.
C3_Witness ==
  /\ UrlReturned
  /\ args.raw # PyNone
  /\ args.base # PyNone
  /\ strip(args.raw.s) # args.raw.s
  /\ EmbeddedStarts(args.raw.s) # {}
  /\ Min(EmbeddedStarts(args.raw.s)) > 1
  /\ ret.s # FirstEmbedded(args.raw.s)

-----------------------------------------------------------------------------
(* scrapers.py: unique_items, and the cleaning and final dedupe of scrape_all *)

\* unique_items with the key built from the text as written, not lowercased
RECURSIVE UniqueLoopCaseSensitive(_, _, _)
UniqueLoopCaseSensitive(items, seen, out) ==
  IF items = <<>> THEN PyList(out)
  ELSE
    LET t == PyOr(items[1][1], EmptyStr)
        u == normalize_url(PyOr(items[1][2], EmptyStr), PyNone)
    IN IF t.t # "str" \/ u = Raised THEN Raised
       ELSE
         LET t_norm == strip(t.s)
             key == <<t_norm, u.s>>
         IN IF key \in seen
            THEN UniqueLoopCaseSensitive(Tail(items), seen, out)
            ELSE UniqueLoopCaseSensitive(Tail(items), seen \cup {key},
                   Append(out, PyDict([title |-> PyStr(t_norm), url |-> u])))

unique_items_case_sensitive(items) == UniqueLoopCaseSensitive(items, {}, <<>>)

\* the loop of unique_items over the remaining items; Raised when a title or
\* a url is a truthy value that is no string
RECURSIVE UniqueLoop(_, _, _)
UniqueLoop(items, seen, out) ==
  IF items = <<>> THEN PyList(out)
  ELSE
    LET t == PyOr(items[1][1], EmptyStr)
        u == normalize_url(PyOr(items[1][2], EmptyStr), PyNone)
    IN IF t.t # "str" \/ u = Raised THEN Raised
       ELSE
         LET t_norm == strip(t.s)
             key == <<lower(t_norm), lower(u.s)>>
         IN IF key \in seen
            THEN UniqueLoop(Tail(items), seen, out)
            ELSE UniqueLoop(Tail(items), seen \cup {key},
                   Append(out, PyDict([title |-> PyStr(t_norm), url |-> u])))

\* unique_items(items): items is a sequence of (title, url) pairs
unique_items(items) == UniqueLoop(items, {}, <<>>)

\* scrape_all: the body of `for it in data` for one element; the sequence of
\* records it appends to `cleaned` (none or one), or Raised
CleanOne(it) ==
  LET isDict == it.t = "dict"
      isPair == it.t = "tuple" /\ Len(it.l) >= 2
      rawTitle == IF isDict THEN Get(it.d, "title") ELSE it.l[1]
      rawUrl == IF isDict THEN Get(it.d, "url") ELSE it.l[2]
      t == PyOr(rawTitle, EmptyStr)
      u == normalize_url(PyOr(rawUrl, EmptyStr), PyNone)
  IN IF ~isDict /\ ~isPair THEN PyList(<<>>)
     ELSE IF t.t # "str" \/ u = Raised THEN Raised
          ELSE IF strip(t.s) # <<>>
               THEN PyList(<<PyDict([title |-> PyStr(strip(t.s)), url |-> u])>>)
               ELSE PyList(<<>>)

RECURSIVE CleanLoop(_, _)
CleanLoop(elems, cleaned) ==
  IF elems = <<>> THEN PyList(cleaned)
  ELSE LET one == CleanOne(elems[1])
       IN IF one = Raised THEN Raised
          ELSE CleanLoop(Tail(elems), cleaned \o one.l)

\* scrape_all: `cleaned` for what an adapter returned (`fn() or []`)
Clean(returned) ==
  LET d == PyOr(returned, PyList(<<>>))
  IN CASE d.t \in {"list", "tuple"} -> CleanLoop(d.l, <<>>)
       [] d.t \in {"str", "dict"} -> PyList(<<>>)
       [] OTHER -> Raised

\* scrape_all: the final dedupe pass over `cleaned`
RECURSIVE FinalLoop(_, _, _)
FinalLoop(cleaned, seen, final) ==
  IF cleaned = <<>> THEN final
  ELSE
    LET it == cleaned[1]
        key == <<lower(it.d.title.s), lower(PyOr(it.d.url, EmptyStr).s)>>
    IN IF key \in seen THEN FinalLoop(Tail(cleaned), seen, final)
       ELSE FinalLoop(Tail(cleaned), seen \cup {key}, Append(final, it))

FinalDedupe(cleaned) == FinalLoop(cleaned, {}, <<>>)

-----------------------------------------------------------------------------
(* Unit specification of the Deduplicator: unique_items, then the final    *)
(* pass of scrape_all over its output.                                      *)

MaxItems == 3

T_HackX == <<"H","a","c","k"," ","X">>
T_hackx_padded == <<" ","h","a","c","k"," ","x"," ">>
T_B == <<"B">>
U_a1 == <<"h","t","t","p","s",":","/","/","a","/","1">>
U_A1_in_text == <<"s","e","e"," ","H","T","T","P","S",":","/","/","A","/","1",".">>

DedupeTitles == {PyNone, PyStr(T_HackX), PyStr(T_hackx_padded), PyStr(T_B)}
DedupeUrls == {PyNone, PyStr(U_a1), PyStr(U_A1_in_text)}
DedupePairs == DedupeTitles \X DedupeUrls

SeqsUpTo(S, n) == UNION {[1..k -> S] : k \in 0..n}

InitDedupe ==
  /\ fn = "unique_items"
  /\ args \in [items : SeqsUpTo(DedupePairs, MaxItems)]
  /\ ret = NotRun
  /\ BotIdle

CallUniqueItems ==
  /\ fn = "unique_items"
  /\ ret = NotRun
  /\ ret' = [out |-> unique_items(args.items), again |-> NotRun]
  /\ UNCHANGED <<fn, args, botVars>>

CallFinalPass ==
  /\ fn = "unique_items"
  /\ ret # NotRun
  /\ ret.again = NotRun
  /\ ret.out # Raised
  /\ ret' = [ret EXCEPT !.again = PyList(FinalDedupe(ret.out.l))]
  /\ UNCHANGED <<fn, args, botVars>>

NextDedupe == CallUniqueItems \/ CallFinalPass

SpecDedupe == InitDedupe /\ [][NextDedupe]_vars

\* the key the Deduplicator compares: (title.lower, url.lower)
ItemKey(it) == <<lower(it.d.title.s), lower(it.d.url.s)>>

\* the normalized form of an input pair: trimmed title, normalized url
NormalizedPair(pair) ==
  PyDict([title |-> PyStr(strip(PyOr(pair[1], EmptyStr).s)),
          url |-> normalize_url(PyOr(pair[2], EmptyStr), PyNone)])

\* the positions of the input whose key occurs at no earlier position
FirstOccurrences(items) ==
  {i \in 1..Len(items) :
     \A j \in 1..(i - 1) :
       ItemKey(NormalizedPair(items[j])) # ItemKey(NormalizedPair(items[i]))}

\* the k-th smallest element of a set of numbers
Nth(S, k) == CHOOSE i \in S : Cardinality({j \in S : j <= i}) = k

DedupeReturned == fn = "unique_items" /\ ret # NotRun

\* C2: the output of unique_items has pairwise distinct (title.lower,
\* url.lower) keys, is the normalized input restricted, in input order, to
\* the first occurrence of each key, and the final dedupe pass of scrape_all
\* returns it unchanged.
C2_FirstOccurrenceDedupe ==
  DedupeReturned =>
    /\ ret.out.t = "list"
    /\ LET out == ret.out.l
           first == FirstOccurrences(args.items)
       IN /\ \A a, b \in 1..Len(out) : a # b => ItemKey(out[a]) # ItemKey(out[b])
          /\ Len(out) = Cardinality(first)
          /\ \A k \in 1..Len(out) :
               out[k] = NormalizedPair(args.items[Nth(first, k)])
          /\ ret.again # NotRun => ret.again = ret.out

\* Three pairs, two of which differ only in letter case, padding and the text
\* around the url: two items are kept and the second pass has run.
C2_Witness ==
  /\ DedupeReturned
  /\ ret.again # NotRun
  /\ Len(args.items) = 3
  /\ Len(ret.out.l) = 2
  /\ \E i, j \in 1..3 : i < j /\ args.items[i] # args.items[j]
       /\ ItemKey(NormalizedPair(args.items[i])) = ItemKey(NormalizedPair(args.items[j]))

-----------------------------------------------------------------------------
(* utils.py: parse_deadline_str and filter_by_deadline.  A date is a       *)
(* triple <<year, month, day>>.                                             *)

Digits == <<"0","1","2","3","4","5","6","7","8","9">>
IsDigit(c) == \E i \in DOMAIN Digits : Digits[i] = c
DigitVal(c) == (CHOOSE i \in DOMAIN Digits : Digits[i] = c) - 1

\* s[i] when i is an index of s, else a value that is no character
CharAt(s, i) == IF i \in 1..Len(s) THEN s[i] ELSE "EOS"

IsLeap(y) == (y % 4 = 0 /\ y % 100 # 0) \/ y % 400 = 0

DaysIn(y, m) ==
  IF m = 2 THEN (IF IsLeap(y) THEN 29 ELSE 28)
  ELSE IF m \in {4, 6, 9, 11} THEN 30 ELSE 31

\* the directive %m at position p: <<value, next position>>, <<0, 0>> if it
\* does not match (1[0-2] | 0[1-9] | [1-9], first alternative that matches)
MonthAt(s, p) ==
  LET a == CharAt(s, p)
      b == CharAt(s, p + 1)
  IN IF a = "1" /\ b \in {"0", "1", "2"} THEN <<10 + DigitVal(b), p + 2>>
     ELSE IF a = "0" /\ IsDigit(b) /\ b # "0" THEN <<DigitVal(b), p + 2>>
     ELSE IF IsDigit(a) /\ a # "0" THEN <<DigitVal(a), p + 1>>
     ELSE <<0, 0>>

\* the directive %d at position p (3[01] | [12]\d | 0[1-9] | [1-9] | " "[1-9])
DayAt(s, p) ==
  LET a == CharAt(s, p)
      b == CharAt(s, p + 1)
  IN IF a = "3" /\ b \in {"0", "1"} THEN <<30 + DigitVal(b), p + 2>>
     ELSE IF a \in {"1", "2"} /\ IsDigit(b)
          THEN <<10 * DigitVal(a) + DigitVal(b), p + 2>>
     ELSE IF a = "0" /\ IsDigit(b) /\ b # "0" THEN <<DigitVal(b), p + 2>>
     ELSE IF IsDigit(a) /\ a # "0" THEN <<DigitVal(a), p + 1>>
     ELSE IF a = " " /\ IsDigit(b) /\ b # "0" THEN <<DigitVal(b), p + 2>>
     ELSE <<0, 0>>

\* datetime.strptime(s, "%Y-%m-%d").date() for a string s, PyNone where
\* strptime raises ValueError
strptime_ymd(s) ==
  LET yearOk == \A i \in 1..4 : IsDigit(CharAt(s, i))
      y == 1000 * DigitVal(s[1]) + 100 * DigitVal(s[2])
             + 10 * DigitVal(s[3]) + DigitVal(s[4])
      m == MonthAt(s, 6)
      d == DayAt(s, m[2] + 1)
  IN IF /\ yearOk
        /\ CharAt(s, 5) = "-"
        /\ m[1] # 0
        /\ CharAt(s, m[2]) = "-"
        /\ d[1] # 0
        /\ d[2] = Len(s) + 1
        /\ y >= 1
        /\ d[1] <= DaysIn(y, m[1])
     THEN [t |-> "date", ymd |-> <<y, m[1], d[1]>>]
     ELSE PyNone

\* parse_deadline_str(s): the bare except turns every failure, a value that
\* is no string included, into None
parse_deadline_str(s) == IF s.t = "str" THEN strptime_ymd(s.s) ELSE PyNone

\* deadline >= today
DateGE(a, b) ==
  \/ a[1] > b[1]
  \/ a[1] = b[1] /\ a[2] > b[2]
  \/ a[1] = b[1] /\ a[2] = b[2] /\ a[3] >= b[3]

\* filter_by_deadline with items of unparsable deadline kept
RECURSIVE GoodItemsKeepUnparsable(_, _, _)
GoodItemsKeepUnparsable(items, today, good_items) ==
  IF items = <<>> THEN good_items
  ELSE
    LET it == items[1]
        d == Get(it.d, "deadline")
        deadline == parse_deadline_str(d)
    IN IF ~Truthy(d) \/ deadline = PyNone \/ DateGE(deadline.ymd, today)
       THEN GoodItemsKeepUnparsable(Tail(items), today, Append(good_items, it))
       ELSE GoodItemsKeepUnparsable(Tail(items), today, good_items)

\* filter_by_deadline: the inner loop over one site's items
\* a filter that drops the items without a deadline
RECURSIVE GoodItemsDropUndated(_, _, _)
GoodItemsDropUndated(items, today, good_items) ==
  IF items = <<>> THEN good_items
  ELSE
    LET it == items[1]
        d == Get(it.d, "deadline")
        deadline == parse_deadline_str(d)
    IN IF Truthy(d) /\ deadline # PyNone /\ DateGE(deadline.ymd, today)
       THEN GoodItemsDropUndated(Tail(items), today, Append(good_items, it))
       ELSE GoodItemsDropUndated(Tail(items), today, good_items)

RECURSIVE GoodItems(_, _, _)
GoodItems(items, today, good_items) ==
  IF items = <<>> THEN good_items
  ELSE
    LET it == items[1]
        d == Get(it.d, "deadline")
        deadline == parse_deadline_str(d)
    IN IF ~Truthy(d)
       THEN GoodItems(Tail(items), today, Append(good_items, it))
       ELSE IF deadline # PyNone /\ DateGE(deadline.ymd, today)
            THEN GoodItems(Tail(items), today, Append(good_items, it))
            ELSE GoodItems(Tail(items), today, good_items)

\* filter_by_deadline(results) on a day `today`; a ResultSet is the sequence
\* of its (site, items) entries in insertion order
filter_by_deadline(res, today) ==
  [i \in 1..Len(res) |->
     [site |-> res[i].site, items |-> GoodItems(res[i].items, today, <<>>)]]

-----------------------------------------------------------------------------
(* utils.py: format_item_html and format_message.  Characters outside      *)
(* ASCII are written by code point and count as one character.              *)

MSG_BANNER ==
  <<"U+1F525"," ","<","b",">","L","a","t","e","s","t"," ","H","a","c","k",
    "a","t","h","o","n","s"," ","&"," ","C","h","a","l","l","e","n","g","e",
    "s","<","/","b",">","\n","\n">>
MSG_NOTHING_FOUND ==
  <<"U+1F634"," ","N","o"," ","a","c","t","i","v","e"," ","o","r"," ","u",
    "p","c","o","m","i","n","g"," ","h","a","c","k","a","t","h","o","n","s",
    " ","f","o","u","n","d"," ","r","i","g","h","t"," ","n","o","w",".">>
S_site_open ==
  <<"U+2B50"," ","<","b",">">>
S_site_close ==
  <<"<","/","b",">","\n">>
S_item_open ==
  <<"U+2022"," ","<","a"," ","h","r","e","f","=","\"">>
S_item_mid ==
  <<"\"",">">>
S_item_close ==
  <<"<","/","a",">">>
S_deadline_open ==
  <<" ","<","b",">","(","D","e","a","d","l","i","n","e",":"," ">>
S_deadline_close ==
  <<")","<","/","b",">">>
S_newline ==
  <<"\n">>
S_Untitled ==
  <<"U","n","t","i","t","l","e","d">>

\* str(v) as an f-string renders it, for the values the model formats
Str(v) ==
  CASE v.t = "str" -> v.s
    [] v.t = "none" -> <<"N","o","n","e">>
    [] OTHER -> <<"?">>

\* item.get(k, default)
GetOr(d, k, default) == IF k \in DOMAIN d THEN d[k] ELSE default

\* format_item_html(item)
format_item_html(item) ==
  LET title == GetOr(item.d, "title", PyStr(S_Untitled))
      url == GetOr(item.d, "url", EmptyStr)
      deadline == GetOr(item.d, "deadline", PyNone)
      line == S_item_open \o Str(url) \o S_item_mid \o Str(title) \o S_item_close
  IN IF Truthy(deadline)
     THEN line \o S_deadline_open \o Str(deadline) \o S_deadline_close
     ELSE line

\* items[:n]
Take(items, n) == SubSeq(items, 1, IF Len(items) < n THEN Len(items) ELSE n)

ITEMS_PER_SITE == 10

\* the lines format_message adds for items[:10]
RECURSIVE ItemLines(_)
ItemLines(items) ==
  IF items = <<>> THEN <<>>
  ELSE format_item_html(items[1]) \o S_newline \o ItemLines(Tail(items))

\* format_message that shows every item of a site
RECURSIVE MessageBodyAllItems(_)
MessageBodyAllItems(res) ==
  IF res = <<>> THEN <<>>
  ELSE IF res[1].items = <<>> THEN MessageBodyAllItems(Tail(res))
       ELSE S_site_open \o upper(res[1].site) \o S_site_close
              \o ItemLines(res[1].items) \o S_newline
              \o MessageBodyAllItems(Tail(res))

\* format_message: what the loop over results.items() appends to msg
RECURSIVE MessageBody(_)
MessageBody(res) ==
  IF res = <<>> THEN <<>>
  ELSE IF res[1].items = <<>> THEN MessageBody(Tail(res))
       ELSE S_site_open \o upper(res[1].site) \o S_site_close
              \o ItemLines(Take(res[1].items, ITEMS_PER_SITE)) \o S_newline
              \o MessageBody(Tail(res))

\* format_message(results): `empty` stays True when no site has items
format_message(res) ==
  IF \A i \in 1..Len(res) : res[i].items = <<>>
  THEN MSG_NOTHING_FOUND
  ELSE strip(MSG_BANNER \o MessageBody(res))

-----------------------------------------------------------------------------
(* scrapers.py: the keys of SITES_INFO in registry order.  The model runs   *)
(* the first NumSites of them.                                              *)

SITE_NAMES ==
  << <<"m","y","g","o","v">>,
     <<"m","e","i","t","y">>,
     <<"d","i","g","i","t","a","l","_","i","n","d","i","a">>,
     <<"r","b","i">>,
     <<"i","s","r","o">>,
     <<"n","i","c">>,
     <<"n","v","i","d","i","a">>,
     <<"m","e","t","a">>,
     <<"g","o","o","g","l","e","_","d","e","v">>,
     <<"m","i","c","r","o","s","o","f","t">>,
     <<"a","p","p","l","e">>,
     <<"a","w","s">>,
     <<"k","a","g","g","l","e">>,
     <<"a","i","c","r","o","w","d">>,
     <<"d","e","v","f","o","l","i","o">>,
     <<"g","o","o","g","l","e","_","n","e","w","s">> >>

NumSites == 2

Registry == SubSeq(SITE_NAMES, 1, NumSites)

-----------------------------------------------------------------------------
(* Unit specification of filter_by_deadline *)

D_2025_05_01 == <<"2","0","2","5","-","0","5","-","0","1">>
D_2025_06_01 == <<"2","0","2","5","-","0","6","-","0","1">>
D_2025_12_01 == <<"2","0","2","5","-","1","2","-","0","1">>
D_01_Dec_2025 == <<"0","1"," ","D","e","c"," ","2","0","2","5">>
D_December_1_2025 == <<"D","e","c","e","m","b","e","r"," ","1",","," ","2","0","2","5">>
D_01_12_2025 == <<"0","1","/","1","2","/","2","0","2","5">>
D_TBA == <<"T","B","A">>

\* the values of an item's deadline field; NoField: the item has no such key
NoField == [t |-> "nofield"]

DeadlineFields ==
  { NoField, PyNone, EmptyStr, PyInt(20251201),
    PyStr(D_2025_05_01), PyStr(D_2025_06_01), PyStr(D_2025_12_01),
    PyStr(D_01_Dec_2025), PyStr(D_December_1_2025), PyStr(D_01_12_2025),
    PyStr(D_TBA) }

Todays == {<<2025, 6, 1>>, <<2025, 12, 2>>}

\* the n-th item of a list: its title tells its position
ItemNo(n, deadline) ==
  LET base == [title |-> PyStr(<<"T", Digits[(n % 10) + 1]>>), url |-> PyStr(U_a1)]
  IN IF deadline = NoField THEN PyDict(base)
     ELSE PyDict([k \in {"title", "url", "deadline"} |->
                    IF k = "deadline" THEN deadline ELSE base[k]])

ItemsWith(deadlines) == [n \in 1..Len(deadlines) |-> ItemNo(n, deadlines[n])]

\* one site with the chosen items, one whose only item has expired, one empty
FilterInput(deadlines) ==
  << [site |-> SITE_NAMES[1], items |-> ItemsWith(deadlines)],
     [site |-> SITE_NAMES[2], items |-> <<ItemNo(1, PyStr(D_2025_05_01))>>],
     [site |-> SITE_NAMES[3], items |-> <<>>] >>

InitFilter ==
  /\ fn = "filter_by_deadline"
  /\ args \in [results : {FilterInput(ds) : ds \in SeqsUpTo(DeadlineFields, MaxItems)},
               today : Todays]
  /\ ret = NotRun
  /\ BotIdle

CallFilterByDeadline ==
  /\ fn = "filter_by_deadline"
  /\ ret = NotRun
  /\ ret' = filter_by_deadline(args.results, args.today)
  /\ UNCHANGED <<fn, args, botVars>>

NextFilter == CallFilterByDeadline

SpecFilter == InitFilter /\ [][NextFilter]_vars

FilterReturned == fn = "filter_by_deadline" /\ ret # NotRun

\* the date a YYYY-MM-DD deadline of the inputs denotes
IsoDateOf(s) ==
  CASE s = D_2025_05_01 -> <<2025, 5, 1>>
    [] s = D_2025_06_01 -> <<2025, 6, 1>>
    [] s = D_2025_12_01 -> <<2025, 12, 1>>
    [] OTHER -> <<>>

\* the date a deadline of the inputs denotes in the formats the spec lists:
\* "01 Dec 2025" (day month-abbrev year), "December 1, 2025" (month-full
\* day, year), "01/12/2025" (day/month/year)
ListedDateOf(s) ==
  CASE s = D_01_Dec_2025 -> <<2025, 12, 1>>
    [] s = D_December_1_2025 -> <<2025, 12, 1>>
    [] s = D_01_12_2025 -> <<2025, 12, 1>>
    [] OTHER -> IsoDateOf(s)

\* the item carries no deadline: no field, None or the empty string
DeadlineAbsent(it) == ~Truthy(Get(it.d, "deadline"))

\* C4: filter_by_deadline returns the same source keys in the same order,
\* and each source's list is exactly the input items, in order, whose
\* deadline is absent or is a (YYYY-MM-DD) date >= today; a source left
\* with no items maps to the empty list.
C4_FilterKeepsAbsentAndFuture ==
  FilterReturned =>
    LET Kept(it) ==
          \/ DeadlineAbsent(it)
          \/ /\ it.d.deadline.t = "str"
             /\ IsoDateOf(it.d.deadline.s) # <<>>
             /\ DateGE(IsoDateOf(it.d.deadline.s), args.today)
    IN /\ Len(ret) = Len(args.results)
       /\ \A i \in 1..Len(ret) :
            /\ ret[i].site = args.results[i].site
            /\ ret[i].items = SelectSeq(args.results[i].items, Kept)

\* Items with an absent, a past and a future deadline, in that order: the
\* first and the last are kept, and the second site is left empty.
C4_Witness ==
  /\ FilterReturned
  /\ args.today = <<2025, 6, 1>>
  /\ Len(args.results[1].items) = 3
  /\ DeadlineAbsent(args.results[1].items[1])
  /\ Get(args.results[1].items[2].d, "deadline") = PyStr(D_2025_05_01)
  /\ Get(args.results[1].items[3].d, "deadline") = PyStr(D_2025_12_01)
  /\ ret[1].items = <<args.results[1].items[1], args.results[1].items[3]>>
  /\ ret[2].items = <<>>

\* C9: an item whose deadline is a string that parses in none of the listed
\* formats is kept like one without deadline, and an item whose deadline is
\* written in a listed format and denotes a date >= today is kept.
C9_UnparsableKeptListedFormatsParsed ==
  FilterReturned =>
    \A i \in 1..Len(args.results) :
      \A n \in 1..Len(args.results[i].items) :
        LET it == args.results[i].items[n]
            d == Get(it.d, "deadline")
            kept == \E k \in 1..Len(ret[i].items) : ret[i].items[k] = it
        IN (d.t = "str" /\ d.s # <<>>) =>
             /\ ListedDateOf(d.s) = <<>> => kept
             /\ (ListedDateOf(d.s) # <<>> /\ DateGE(ListedDateOf(d.s), args.today))
                  => kept

-----------------------------------------------------------------------------
(* Unit specification of format_message *)

ItemCounts == {0, 1, 2, ITEMS_PER_SITE, ITEMS_PER_SITE + 1}

FormatSiteItems ==
  { ItemsWith([n \in 1..c |-> dl]) :
      c \in ItemCounts, dl \in {NoField, PyStr(D_2025_12_01)} }

\* the ResultSets over the first k registry sites, k = 0 .. NumSites
FormatInputs ==
  UNION { { [i \in 1..k |-> [site |-> SITE_NAMES[i], items |-> f[i]]] :
              f \in [1..k -> FormatSiteItems] } : k \in 0..NumSites }

InitFormat ==
  /\ fn = "format_message"
  /\ args \in [results : FormatInputs]
  /\ ret = NotRun
  /\ BotIdle

CallFormatMessage ==
  /\ fn = "format_message"
  /\ ret = NotRun
  /\ ret' = format_message(args.results)
  /\ UNCHANGED <<fn, args, botVars>>

NextFormat == CallFormatMessage

SpecFormat == InitFormat /\ [][NextFormat]_vars

FormatReturned == fn = "format_message" /\ ret # NotRun

\* the number of a site's items the digest shows
Shown(items) == IF Len(items) < ITEMS_PER_SITE THEN Len(items) ELSE ITEMS_PER_SITE

\* the number of digest lines taken by the sites before the i-th
RECURSIVE LinesBefore(_, _)
LinesBefore(res, i) ==
  IF i <= 1 THEN 0
  ELSE LinesBefore(res, i - 1)
         + (IF res[i - 1].items = <<>> THEN 0 ELSE Shown(res[i - 1].items) + 2)

\* C5: format_message returns the "nothing found" sentinel iff every source
\* maps to an empty list (the empty mapping included); otherwise the digest
\* is the banner, a blank line, and for each non-empty source in mapping
\* order, and for no empty source, its uppercased header, then min(10, n)
\* item lines in item order, the blocks separated by a blank line.
C5_SentinelIffEmptyElseBlocks ==
  FormatReturned =>
    LET res == args.results
        nonEmpty == {i \in 1..Len(res) : res[i].items # <<>>}
        lines == split(ret, "\n")
        total == LinesBefore(res, Len(res) + 1)
    IN /\ (ret = MSG_NOTHING_FOUND) <=> (nonEmpty = {})
       /\ nonEmpty # {} =>
            /\ Len(lines) = 2 + total - 1
            /\ lines[1] = SubSeq(MSG_BANNER, 1, Len(MSG_BANNER) - 2)
            /\ lines[2] = <<>>
            /\ \A i \in nonEmpty :
                 LET start == 3 + LinesBefore(res, i)
                 IN /\ lines[start] =
                         S_site_open \o upper(res[i].site) \o <<"<", "/", "b", ">">>
                    /\ \A n \in 1..Shown(res[i].items) :
                         lines[start + n] = format_item_html(res[i].items[n])
                    /\ start + Shown(res[i].items) + 1 <= Len(lines)
                         => lines[start + Shown(res[i].items) + 1] = <<>>

\* A digest for a mapping with an empty source and a source of more than ten
\* items.
C5_Witness ==
  /\ FormatReturned
  /\ ret # MSG_NOTHING_FOUND
  /\ \E i \in 1..Len(args.results) : args.results[i].items = <<>>
  /\ \E i \in 1..Len(args.results) : Len(args.results[i].items) > ITEMS_PER_SITE

-----------------------------------------------------------------------------
(* scrapers.py: the JSON adapters scrape_nvidia, scrape_aicrowd and        *)
(* scrape_devfolio.  `fetched` is what fetch_json returned (None on any     *)
(* failure); `page` is the sequence of elements the fallback page's         *)
(* selector yields (empty when fetch_text returned ""), each with its text, *)
(* its href attribute and its title attribute (None when missing).          *)

B_nvidia == <<"h","t","t","p","s",":","/","/","d","e","v","e","l","o","p","e","r",".","n","v","i","d","i","a",".","c","o","m">>
B_aicrowd == <<"h","t","t","p","s",":","/","/","w","w","w",".","a","i","c","r","o","w","d",".","c","o","m">>
B_devfolio == <<"h","t","t","p","s",":","/","/","d","e","v","f","o","l","i","o",".","c","o">>
S_hackathon == <<"h","a","c","k","a","t","h","o","n">>

\* d.get(k1) or d.get(k2) or ... or default
RECURSIVE FirstOf(_, _, _)
FirstOf(d, keys, default) ==
  IF keys = <<>> THEN default
  ELSE PyOr(Get(d, keys[1]), FirstOf(d, Tail(keys), default))

\* v[:n]: a list's or a string's first n elements, Raised for a value that
\* cannot be sliced (a dict, a number)
Slice(v, n) ==
  CASE v.t = "list" -> PyList(Take(v.l, n))
    [] v.t = "str" -> PyList([i \in 1..Len(Take(v.s, n)) |-> PyStr(<<v.s[i]>>)])
    [] OTHER -> Raised

\* the loop `for ev in events[:n]` of a JSON adapter: the (title, link) pairs
\* appended to items, or Raised (ev without .get, a link without .strip)
RECURSIVE JsonLoop(_, _, _, _, _)
JsonLoop(elems, titleKeys, linkKeys, base, items) ==
  IF elems = <<>> THEN PyList(items)
  ELSE
    LET ev == elems[1]
    IN IF ev.t # "dict" THEN Raised
       ELSE
         LET title == FirstOf(ev.d, titleKeys, PyNone)
             link == normalize_url(FirstOf(ev.d, linkKeys, PyNone), PyStr(base))
         IN IF ~Truthy(title)
            THEN JsonLoop(Tail(elems), titleKeys, linkKeys, base, items)
            ELSE IF link = Raised THEN Raised
                 ELSE JsonLoop(Tail(elems), titleKeys, linkKeys, base,
                               Append(items, <<title, link>>))

\* the JSON part of an adapter: `items` after the `if data and
\* isinstance(data, dict)` block
JsonItems(fetched, listKeys, titleKeys, linkKeys, base, limit) ==
  IF ~(Truthy(fetched) /\ fetched.t = "dict") THEN PyList(<<>>)
  ELSE LET events == Slice(FirstOf(fetched.d, listKeys, PyList(<<>>)), limit)
       IN IF events = Raised THEN Raised
          ELSE JsonLoop(events.l, titleKeys, linkKeys, base, <<>>)

\* `sub in s`
Contains(s, sub) ==
  \E i \in 1..(Len(s) - Len(sub) + 1) : SubSeq(s, i, i + Len(sub) - 1) = sub

\* the fallback loops over the page's elements
RECURSIVE NvidiaPage(_, _)
NvidiaPage(page, items) ==
  IF page = <<>> THEN items
  ELSE LET h == page[1]
           link == normalize_url(PyOr(h.href, EmptyStr), PyStr(B_nvidia))
       IN NvidiaPage(Tail(page),
            IF h.text # <<>> THEN Append(items, <<PyStr(h.text), link>>) ELSE items)

RECURSIVE AicrowdPage(_, _)
AicrowdPage(page, items) ==
  IF page = <<>> THEN items
  ELSE LET a == page[1]
           title == PyOr(a.title, PyStr(a.text))
           link == normalize_url(a.href, PyStr(B_aicrowd))
       IN AicrowdPage(Tail(page),
            IF Truthy(title) THEN Append(items, <<title, link>>) ELSE items)

RECURSIVE DevfolioPage(_, _)
DevfolioPage(page, items) ==
  IF page = <<>> THEN items
  ELSE LET h == page[1]
       IN DevfolioPage(Tail(page),
            IF h.text # <<>> /\ Contains(lower(h.text), S_hackathon)
            THEN Append(items, <<PyStr(h.text),
                                 normalize_url(PyOr(h.href, EmptyStr), PyStr(B_devfolio))>>)
            ELSE items)

NVIDIA_LIMIT == 40
PLATFORM_LIMIT == 60

scrape_nvidia(fetched, page) ==
  LET items == JsonItems(fetched, <<"events", "data", "items">>,
                         <<"title", "name", "headline">>, <<"url", "link", "href">>,
                         B_nvidia, NVIDIA_LIMIT)
  IN IF items = Raised THEN Raised
     ELSE IF items.l = <<>>
          THEN unique_items(NvidiaPage(Take(page, NVIDIA_LIMIT), <<>>))
          ELSE unique_items(items.l)

scrape_aicrowd(fetched, page) ==
  LET items == JsonItems(fetched, <<"challenges", "data">>,
                         <<"title", "name">>, <<"url", "permalink">>,
                         B_aicrowd, PLATFORM_LIMIT)
  IN IF items = Raised THEN Raised
     ELSE IF items.l = <<>>
          THEN unique_items(AicrowdPage(Take(page, PLATFORM_LIMIT), <<>>))
          ELSE unique_items(items.l)

scrape_devfolio(fetched, page) ==
  LET items == JsonItems(fetched, <<"data", "hackathons", "hackathon">>,
                         <<"title", "name">>, <<"url", "external_url">>,
                         B_devfolio, PLATFORM_LIMIT)
  IN IF items = Raised THEN Raised
     ELSE IF items.l = <<>>
          THEN unique_items(DevfolioPage(page, <<>>))
          ELSE unique_items(items.l)

-----------------------------------------------------------------------------
(* Unit specification of the JSON adapters *)

T_Hackathon_Y == <<"H","a","c","k","a","t","h","o","n"," ","Y">>
U_e1 == <<"/","c","h","a","l","l","e","n","g","e","s","/","1">>

\* elements of the list a JSON response holds: well-formed records under the
\* primary and the fallback field names, a record without title, records with
\* a number as title or link, and elements that are no mappings
JsonElements ==
  { PyDict([title |-> PyStr(T_HackX), url |-> PyStr(U_e1)]),
    PyDict([name |-> PyStr(T_B), url |-> PyNone]),
    PyDict([url |-> PyStr(U_e1)]),
    PyDict([title |-> PyInt(7), url |-> PyStr(U_e1)]),
    PyDict([title |-> PyStr(T_HackX), url |-> PyInt(7)]),
    PyStr(T_B),
    PyInt(3) }

MaxEvents == 2

\* values of the list field: a list, or (schema drift) something else
ListFields ==
  {PyList(l) : l \in SeqsUpTo(JsonElements, MaxEvents)}
    \cup {PyNone, PyDict([id |-> PyInt(1)]), PyStr(T_B), PyInt(5)}

\* what fetch_json returns: None (network failure, bad JSON), a mapping with
\* the list under the primary key, under the key "data", or without it, and
\* top-level values that are no mapping
Fetched ==
  {PyNone, PyList(<<PyInt(1)>>), PyStr(T_B), PyDict([status |-> PyStr(T_B)])}
    \cup {PyDict([events |-> v]) : v \in ListFields}
    \cup {PyDict([challenges |-> v]) : v \in ListFields}
    \cup {PyDict([data |-> v]) : v \in ListFields}

PageElements ==
  { [text |-> T_Hackathon_Y, href |-> PyStr(U_e1), title |-> PyNone],
    [text |-> <<>>, href |-> PyStr(U_e1), title |-> PyStr(T_B)],
    [text |-> T_Hackathon_Y, href |-> PyNone, title |-> PyNone] }

Pages == SeqsUpTo(PageElements, 1)

\* scrape_aicrowd selects a[href*='/challenges/']: its elements have an href
InitAdapter ==
  /\ fn \in {"scrape_nvidia", "scrape_aicrowd", "scrape_devfolio"}
  /\ args \in [fetched : Fetched, page : Pages]
  /\ fn = "scrape_aicrowd" => \A i \in 1..Len(args.page) : args.page[i].href # PyNone
  /\ ret = NotRun
  /\ BotIdle

CallScrapeNvidia ==
  /\ fn = "scrape_nvidia"
  /\ ret = NotRun
  /\ ret' = scrape_nvidia(args.fetched, args.page)
  /\ UNCHANGED <<fn, args, botVars>>

CallScrapeAicrowd ==
  /\ fn = "scrape_aicrowd"
  /\ ret = NotRun
  /\ ret' = scrape_aicrowd(args.fetched, args.page)
  /\ UNCHANGED <<fn, args, botVars>>

CallScrapeDevfolio ==
  /\ fn = "scrape_devfolio"
  /\ ret = NotRun
  /\ ret' = scrape_devfolio(args.fetched, args.page)
  /\ UNCHANGED <<fn, args, botVars>>

NextAdapter == CallScrapeNvidia \/ CallScrapeAicrowd \/ CallScrapeDevfolio

SpecAdapter == InitAdapter /\ [][NextAdapter]_vars

\* C8: whatever its fetches return (nothing, an empty page, a JSON value of
\* an unexpected shape), an adapter returns a sequence and does not raise.
C8_AdapterNeverRaises ==
  (fn \in {"scrape_nvidia", "scrape_aicrowd", "scrape_devfolio"} /\ ret # NotRun)
    => ret.t = "list"

-----------------------------------------------------------------------------
(* bot.py: main, initial_scrape_and_notify, cmd_check, cmd_file, cmd_start  *)
(* and cmd_help, with scrape_all run one registry entry per step.           *)
(* Handlers run one at a time (the application handles updates in sequence  *)
(* and scrape_all blocks), so a command starts only at pc = "polling".      *)

DIGEST_LIMIT == 3800

\* the snapshot file holding the JSON document of a ResultSet
FileOf(res) == [exists |-> TRUE, intact |-> TRUE, content |-> res]

\* the file after open(path, "w") truncated it and the write failed
TruncatedFile == [exists |-> TRUE, intact |-> FALSE, content |-> <<>>]

\* a save that leaves a file that is already there as it is
save_json_keep_existing(file, res, outcome) ==
  IF outcome = "ok" /\ ~file.exists THEN FileOf(res) ELSE file

\* save_json(path, data): the file afterwards, for each way the call can end:
\* it returns, open() raises (the file is as before), the write raises
save_json(file, res, outcome) ==
  CASE outcome = "ok" -> FileOf(res)
    [] outcome = "open_fails" -> file
    [] outcome = "write_fails" -> TruncatedFile

SaveOutcomes == {"ok", "open_fails", "write_fails"}

\* a loop body without the try/except: the adapter's exception goes on
AdapterDataUncaught(outcome) ==
  IF outcome = Raised THEN Raised ELSE PyOr(outcome, PyList(<<>>))

\* scrape_all: `data` after the try/except around fn()
AdapterData(outcome) ==
  IF outcome = Raised THEN PyList(<<>>) ELSE PyOr(outcome, PyList(<<>>))

\* scrape_all: the value stored under results[name], or Raised when the
\* cleaning loop (which no try covers) raises
SiteItems(outcome) ==
  LET cleaned == Clean(AdapterData(outcome))
  IN IF cleaned = Raised THEN Raised ELSE PyList(FinalDedupe(cleaned.l))

\* a title of n characters
LongTitle(n) == [i \in 1..n |-> "a"]

OneItem(title) == PyList(<<PyDict([title |-> PyStr(title), url |-> EmptyStr])>>)

\* the length of the digest of a single item under the first site, without
\* the item's title
SingleItemOverhead ==
  Len(format_message(<<[site |-> Registry[1],
                        items |-> <<PyDict([title |-> EmptyStr, url |-> EmptyStr])>>]>>))

\* what an adapter call can end with: an exception, None, a single pair, a
\* list with duplicates, a blank title and a stray element; and, for the
\* first site, one item whose digest is one character short of the limit or
\* exactly at it
O_pair == PyList(<<PyTuple(<<PyStr(T_HackX), PyStr(U_a1)>>)>>)
O_mixed ==
  PyList(<< PyDict([title |-> PyStr(T_hackx_padded), url |-> PyStr(U_A1_in_text)]),
            PyTuple(<<PyStr(T_HackX), PyStr(U_a1)>>),
            PyDict([title |-> PyStr(<<" ">>), url |-> PyStr(U_a1)]),
            PyStr(T_B),
            PyDict([title |-> PyStr(T_B), url |-> PyNone]) >>)
O_below_limit == OneItem(LongTitle(DIGEST_LIMIT - SingleItemOverhead - 1))
O_at_limit == OneItem(LongTitle(DIGEST_LIMIT - SingleItemOverhead))

T_Announcement == <<"H","a","c","k","a","t","h","o","n"," ","W","i","n","n","e","r"," ","A","n","n","o","u","n","c","e","m","e","n","t">>
T_Innovation == <<"N","a","t","i","o","n","a","l"," ","I","n","n","o","v","a","t","i","o","n"," ","C","h","a","l","l","e","n","g","e"," ","2","0","2","5">>

\* for the first site also: two titles, the second in a dict that carries a
\* deadline in the past as well
O_titled ==
  PyList(<< PyTuple(<<PyStr(T_Announcement), PyStr(U_a1)>>),
            PyDict([title |-> PyStr(T_Innovation), url |-> PyStr(U_a1),
                    deadline |-> PyStr(D_2025_05_01)]) >>)

AdapterOutcomes(i) ==
  {Raised, PyNone, O_pair, O_mixed}
    \cup (IF i = 1 THEN {O_below_limit, O_at_limit, O_titled} ELSE {})

NoCalls == [i \in 1..Len(Registry) |-> 0]

InitBot ==
  /\ fn = "main"
  /\ args = PyNone
  /\ ret = NotRun
  /\ pc = "main"
  /\ handler = "none"
  /\ idx = 0
  /\ results = <<>>
  /\ data = <<>>
  /\ calls = <<>>
  /\ msg = NoMsg
  /\ DATA_FILE \in {NoFile, FileOf(<<>>)}
  /\ outbox = <<>>
  /\ trace = <<>>
  /\ installed \in BOOLEAN
  /\ lastRun = NoRun

\* the handler's locals are gone when it returns or an exception leaves it
EndHandler(summary) ==
  /\ pc' = "polling"
  /\ handler' = "none"
  /\ idx' = 0
  /\ results' = <<>>
  /\ data' = <<>>
  /\ calls' = <<>>
  /\ msg' = NoMsg
  /\ lastRun' = summary

BeginRun(h, sent) ==
  /\ handler' = h
  /\ pc' = "scrape"
  /\ idx' = 1
  /\ results' = <<>>
  /\ data' = <<>>
  /\ calls' = NoCalls
  /\ msg' = NoMsg
  /\ outbox' = sent
  /\ trace' = <<>>
  /\ lastRun' = [NoRun EXCEPT !.handler = h, !.status = "running"]

\* main -> initial_scrape_and_notify when the imports failed: skipped
StartupSkipped ==
  /\ pc = "main"
  /\ ~installed
  /\ pc' = "polling"
  /\ UNCHANGED <<unitVars, handler, idx, results, data, calls, msg, DATA_FILE,
                 outbox, trace, installed, lastRun>>

\* main -> initial_scrape_and_notify
StartupRun ==
  /\ pc = "main"
  /\ installed
  /\ BeginRun("startup", <<>>)
  /\ UNCHANGED <<unitVars, DATA_FILE, installed>>

\* cmd_check up to the call of scrape_all
CmdCheck ==
  /\ pc = "polling"
  /\ IF ~installed
     THEN /\ outbox' = <<[by |-> "check", api |-> "reply_text", kind |-> "not_installed"]>>
          /\ UNCHANGED <<pc, handler, idx, results, data, calls, msg, trace, lastRun>>
     ELSE BeginRun("check", <<[by |-> "check", api |-> "reply_text", kind |-> "notice"]>>)
  /\ UNCHANGED <<unitVars, DATA_FILE, installed>>

\* a run ended by an exception: initial_scrape_and_notify catches and prints
\* it, cmd_check lets it out to the application, which logs it
Abort(step) ==
  EndHandler([lastRun EXCEPT !.status = "failed", !.failed = step,
                             !.filtered = results])

\* scrape_all: one iteration of the loop over SITES_INFO
ScrapeOne ==
  /\ pc = "scrape"
  /\ idx <= Len(Registry)
  /\ \E outcome \in AdapterOutcomes(idx) :
       LET final == SiteItems(outcome)
       IN IF final = Raised
          THEN /\ Abort("scrape_all")
               /\ UNCHANGED <<outbox, trace>>
          ELSE /\ results' = Append(results, [site |-> Registry[idx], items |-> final.l])
               /\ data' = Append(data, outcome)
               /\ calls' = [calls EXCEPT ![idx] = @ + 1]
               /\ idx' = idx + 1
               /\ pc' = IF idx = Len(Registry) THEN "filter" ELSE "scrape"
               /\ trace' = IF idx = Len(Registry) THEN Append(trace, "aggregate") ELSE trace
               /\ UNCHANGED <<handler, msg, outbox, lastRun>>
  /\ UNCHANGED <<unitVars, DATA_FILE, installed>>

\* results = filter_by_deadline(results)
Filter ==
  /\ pc = "filter"
  /\ \E today \in Todays : results' = filter_by_deadline(results, today)
  /\ pc' = "save"
  /\ idx' = 0
  /\ data' = <<>>
  /\ calls' = <<>>
  /\ trace' = Append(trace, "filter")
  /\ UNCHANGED <<unitVars, handler, msg, DATA_FILE, outbox, installed, lastRun>>

\* save_json(DATA_FILE, results)
Save ==
  /\ pc = "save"
  /\ \E outcome \in SaveOutcomes :
       /\ DATA_FILE' = save_json(DATA_FILE, results, outcome)
       /\ IF outcome = "ok"
          THEN /\ pc' = "format"
               /\ trace' = Append(trace, "save")
               /\ lastRun' = [lastRun EXCEPT !.overwrote =
                                DATA_FILE.exists /\ DATA_FILE # FileOf(results)]
               /\ UNCHANGED <<handler, idx, results, data, calls, msg, outbox>>
          ELSE /\ Abort("save_json")
               /\ UNCHANGED <<outbox, trace>>
  /\ UNCHANGED <<unitVars, installed>>

\* msg = format_message(results)
Format ==
  /\ pc = "format"
  /\ msg' = format_message(results)
  /\ pc' = "deliver"
  /\ trace' = Append(trace, "format")
  /\ UNCHANGED <<unitVars, handler, idx, results, data, calls, DATA_FILE, outbox,
                 installed, lastRun>>

Completed ==
  EndHandler([lastRun EXCEPT !.status = "completed", !.filtered = results,
                             !.msgLen = Len(msg)])

\* cmd_check: the length test and the reply
DeliverCheck ==
  /\ pc = "deliver"
  /\ handler = "check"
  /\ outbox' = Append(outbox,
       IF Len(msg) < DIGEST_LIMIT
       THEN [by |-> "check", api |-> "reply_text", kind |-> "digest", text |-> msg]
       ELSE [by |-> "check", api |-> "reply_document", kind |-> "file",
             content |-> DATA_FILE])
  /\ trace' = Append(trace, "deliver")
  /\ Completed
  /\ UNCHANGED <<unitVars, DATA_FILE, installed>>

\* initial_scrape_and_notify: app.bot.send_message(chat_id, text=msg)
DeliverStartup ==
  /\ pc = "deliver"
  /\ handler = "startup"
  /\ outbox' = Append(outbox,
       [by |-> "startup", api |-> "send_message", kind |-> "digest", text |-> msg])
  /\ trace' = Append(trace, "deliver")
  /\ Completed
  /\ UNCHANGED <<unitVars, DATA_FILE, installed>>

\* cmd_file
CmdFile ==
  /\ pc = "polling"
  /\ outbox' = IF ~DATA_FILE.exists
               THEN <<[by |-> "file", api |-> "reply_text", kind |-> "no_file"]>>
               ELSE <<[by |-> "file", api |-> "reply_document", kind |-> "file",
                       content |-> DATA_FILE]>>
  /\ UNCHANGED <<unitVars, pc, handler, idx, results, data, calls, msg, DATA_FILE,
                 trace, installed, lastRun>>

\* cmd_start
CmdStart ==
  /\ pc = "polling"
  /\ outbox' = <<[by |-> "start", api |-> "reply_text", kind |-> "commands"]>>
  /\ UNCHANGED <<unitVars, pc, handler, idx, results, data, calls, msg, DATA_FILE,
                 trace, installed, lastRun>>

\* cmd_help
CmdHelp ==
  /\ pc = "polling"
  /\ outbox' = <<[by |-> "help", api |-> "reply_text", kind |-> "help"]>>
  /\ UNCHANGED <<unitVars, pc, handler, idx, results, data, calls, msg, DATA_FILE,
                 trace, installed, lastRun>>

Next ==
  \/ StartupSkipped
  \/ StartupRun
  \/ CmdCheck
  \/ ScrapeOne
  \/ Filter
  \/ Save
  \/ Format
  \/ DeliverCheck
  \/ DeliverStartup
  \/ CmdFile
  \/ CmdStart
  \/ CmdHelp

Spec == InitBot /\ [][Next]_vars

-----------------------------------------------------------------------------
(* Properties of the pipeline.                                              *)

\* the elements of what an adapter returned that scrape_all turns into items
Candidates(returned) ==
  IF returned.t # "list" THEN {}
  ELSE {i \in DOMAIN returned.l :
          \/ returned.l[i].t = "dict"
          \/ returned.l[i].t = "tuple" /\ Len(returned.l[i].l) >= 2}

TitleOf(e) == strip(PyOr(IF e.t = "dict" THEN Get(e.d, "title") ELSE e.l[1], EmptyStr).s)
UrlOf(e) ==
  normalize_url(PyOr(IF e.t = "dict" THEN Get(e.d, "url") ELSE e.l[2], EmptyStr), PyNone)

\* `items` are the returned elements with a title, cleaned, one per
\* case-insensitive (title, url)
ItemsComeFrom(returned, items) ==
  /\ \A k \in DOMAIN items :
       \E i \in Candidates(returned) :
         items[k] = PyDict([title |-> PyStr(TitleOf(returned.l[i])),
                            url |-> UrlOf(returned.l[i])])
  /\ \A i \in Candidates(returned) :
       TitleOf(returned.l[i]) # <<>> =>
         \E k \in DOMAIN items :
           /\ lower(items[k].d.title.s) = lower(TitleOf(returned.l[i]))
           /\ lower(items[k].d.url.s) = lower(UrlOf(returned.l[i]).s)
  /\ \A k, m \in DOMAIN items :
       (/\ lower(items[k].d.title.s) = lower(items[m].d.title.s)
        /\ lower(items[k].d.url.s) = lower(items[m].d.url.s)) => k = m

\* C1: scrape_all never lets an exception out and isolates the adapters:
\* whichever adapters raise, the mapping gets one key per registry source in
\* registry order, a raising adapter's source maps to the empty list, every
\* adapter is called exactly once -- those after a raising one too -- and
\* the items an adapter returned are under its own key.
C1_ScrapeAllIsolatesAdapters ==
  /\ lastRun.failed # "scrape_all"
  /\ pc \in {"scrape", "filter"} =>
       /\ Len(results) = idx - 1
       /\ Len(data) = idx - 1
       /\ pc = "filter" <=> idx = Len(Registry) + 1
       /\ \A i \in DOMAIN results : results[i].site = Registry[i]
       /\ \A i \in DOMAIN calls : calls[i] = IF i < idx THEN 1 ELSE 0
       /\ \A i \in DOMAIN data :
            IF data[i] = Raised
            THEN results[i].items = <<>>
            ELSE ItemsComeFrom(data[i], results[i].items)

\* scrape_all has returned; the first adapter raised and the second
\* returned [("Hack X", "https://a/1")], which is under the second key
C1_Witness ==
  /\ pc = "filter"
  /\ data[1] = Raised
  /\ data[2] = O_pair
  /\ results[1] = [site |-> Registry[1], items |-> <<>>]
  /\ results[2] = [site |-> Registry[2],
                   items |-> <<PyDict([title |-> PyStr(T_HackX), url |-> PyStr(U_a1)])>>]

\* the last thing sent was sent by the run that lastRun describes
RunJustEnded ==
  /\ pc = "polling"
  /\ lastRun.status \in {"completed", "failed"}
  /\ outbox # <<>> => outbox[Len(outbox)].by = lastRun.handler

SentByRun(kind) ==
  {i \in DOMAIN outbox : outbox[i].by = lastRun.handler /\ outbox[i].kind = kind}

\* C6: both callers that deliver a digest test its length against the
\* limit: a digest of DIGEST_LIMIT characters or more is not sent inline and
\* the snapshot file is sent instead; a shorter one is sent inline.
C6_EveryCallerChecksLimit ==
  (RunJustEnded /\ lastRun.status = "completed") =>
    IF lastRun.msgLen >= DIGEST_LIMIT
    THEN SentByRun("digest") = {} /\ SentByRun("file") # {}
    ELSE SentByRun("digest") # {}

PipelineOrder == <<"aggregate", "filter", "save", "format", "deliver">>

\* C7: a run takes its steps in the order aggregate, filter, save, format,
\* deliver; what it saves is its filtered ResultSet; after a completed run
\* the file holds exactly that ResultSet, and a file command that follows
\* delivers it.
C7_OrderAndSnapshot ==
  /\ \E n \in 0..Len(PipelineOrder) : trace = SubSeq(PipelineOrder, 1, n)
  /\ pc = "scrape" => trace = <<>>
  /\ pc = "filter" => trace = SubSeq(PipelineOrder, 1, 1)
  /\ pc = "save" => trace = SubSeq(PipelineOrder, 1, 2)
  /\ pc = "format" => trace = SubSeq(PipelineOrder, 1, 3) /\ DATA_FILE = FileOf(results)
  /\ pc = "deliver" => trace = SubSeq(PipelineOrder, 1, 4) /\ DATA_FILE = FileOf(results)
  /\ (pc = "polling" /\ lastRun.status = "completed") =>
       /\ trace = PipelineOrder
       /\ DATA_FILE = FileOf(lastRun.filtered)
       /\ \A i \in DOMAIN outbox :
            outbox[i].by = "file" =>
              outbox[i] = [by |-> "file", api |-> "reply_document", kind |-> "file",
                           content |-> FileOf(lastRun.filtered)]

\* a check run completed and replaced an older, different snapshot with its
\* own ResultSet, which has items; the file command then delivered it
C7_Witness ==
  /\ pc = "polling"
  /\ lastRun.handler = "check"
  /\ lastRun.status = "completed"
  /\ lastRun.overwrote
  /\ \E i \in DOMAIN lastRun.filtered : lastRun.filtered[i].items # <<>>
  /\ outbox = <<[by |-> "file", api |-> "reply_document", kind |-> "file",
                 content |-> FileOf(lastRun.filtered)]>>

\* C10: when save_json fails in a check run, the user gets a reply after the
\* "running" notice, and the run's ResultSet is as it was before the save.
C10_SaveFailureReported ==
  (/\ RunJustEnded
   /\ lastRun.handler = "check"
   /\ lastRun.failed = "save_json") =>
    /\ Len(outbox) >= 2
    /\ outbox[1].kind = "notice"
    /\ \A i \in DOMAIN lastRun.filtered : lastRun.filtered[i].site = Registry[i]

\* the terms of the light filter
BlocklistTerms ==
  { <<"w","e","b","i","n","a","r">>,
    <<"b","o","o","t","c","a","m","p">>,
    <<"w","o","r","k","s","h","o","p">>,
    <<"s","e","m","i","n","a","r">>,
    <<"s","u","m","m","i","t">>,
    <<"t","r","a","i","n","i","n","g">>,
    <<"a","n","n","o","u","n","c","e","m","e","n","t">> }
AllowlistTerms ==
  { <<"h","a","c","k">>,
    <<"c","h","a","l","l","e","n","g","e">>,
    <<"c","o","m","p","e","t","i","t","i","o","n">>,
    <<"c","o","n","t","e","s","t">>,
    <<"i","n","n","o","v","a","t","i","o","n">>,
    <<"f","e","l","l","o","w","s","h","i","p">>,
    <<"s","t","u","d","e","n","t"," ","c","h","a","l","l","e","n","g","e">> }

\* the light filter's test of a title: no blocklisted term in it, looked for
\* first, and at least one allowlisted term, both without regard to case
LightKeeps(title) ==
  LET low == lower(title)
  IN IF \E b \in BlocklistTerms : Contains(low, b) THEN FALSE
     ELSE \E a \in AllowlistTerms : Contains(low, a)

\* the places <<site, item>> of the ResultSet of the run lastRun describes
ItemsOfRun ==
  UNION {{<<i, k>> : k \in DOMAIN lastRun.filtered[i].items} :
           i \in DOMAIN lastRun.filtered}

\* C11: the pipeline can apply the light filter: the items a completed run
\* keeps are those whose title has no blocklisted term and has an allowlisted
\* one, so "Hackathon Winner Announcement" is not among them.
C11_LightFilterInPipeline ==
  (pc = "polling" /\ lastRun.status = "completed") =>
    \A ik \in ItemsOfRun :
      LightKeeps(lastRun.filtered[ik[1]].items[ik[2]].d.title.s)

\* an item as scrape_all builds it: a title that is not empty and has no
\* blanks around it, a url that is a string, and no other key
WellFormedItem(it) ==
  /\ it.t = "dict"
  /\ DOMAIN it.d = {"title", "url"}
  /\ it.d.title.t = "str"
  /\ it.d.title.s # <<>>
  /\ strip(it.d.title.s) = it.d.title.s
  /\ it.d.url.t = "str"

=============================================================================
